---------------------------- MODULE Spec2Model ----------------------------
(***************************************************************************)
(* Officer portal backend: the handshake revision (src/unnamed/part_002). *)
(* The Officer and Admin collections live in the document store; every    *)
(* store call of a handler is one atomic step, and a handler that awaits  *)
(* two store calls is two steps that other requests can interleave with.  *)
(*                                                                         *)
(* Strings are sequences of one-character strings, so that the handlers'  *)
(* regular expressions are computed on the value, not looked up.          *)
(***************************************************************************)
EXTENDS Integers, Sequences, FiniteSets, Bags, TLC

(***************************************************************************)
(* Values                                                                  *)
(***************************************************************************)
\* A field that is absent from a request body or from a stored document.
Undefined == <<"undefined">>

\* An explicit null stored in a document.
Null == <<"null">>

\* A real string: every element is a single character.
IsString(v) == v \notin {Undefined, Null}

\* JavaScript truthiness of a string-or-missing value (!v is ~Truthy(v)).
Truthy(v) == v \notin {Undefined, Null, <<>>}

Digits == {"0", "1", "2", "3", "4", "5", "6", "7", "8", "9"}

\* /^\d{n}$/.test(v): undefined and null are coerced to words, which fail.
DigitString(v, n) == Len(v) = n /\ \A i \in 1..Len(v) : v[i] \in Digits

\* /^\d{10}$/
Regex10(v) == DigitString(v, 10)

\* /^\d{12}$/
Regex12(v) == DigitString(v, 12)

U1 == <<"o", "1">>
U2 == <<"o", "2">>
M1 == <<"9", "8", "7", "6", "5", "4", "3", "2", "1", "0">>
M2 == <<"9", "8", "7", "6", "5", "4", "3", "2", "1", "1">>
MShort == <<"1", "2", "3", "4", "5">>
MAlpha == <<"9", "8", "7", "6", "5", "4", "3", "2", "1", "x">>
T1 == <<"1", "2", "3", "4", "5", "6", "7", "8", "9", "0", "1", "2">>
T2 == <<"2", "1", "0", "9", "8", "7", "6", "5", "4", "3", "2", "1">>
TShort == <<"1", "2", "3", "4", "5", "6", "7", "8">>
TAlpha == <<"1", "2", "3", "4", "5", "6", "7", "8", "9", "0", "1", "x">>
PW1 == <<"p", "w", "1">>
PW2 == <<"p", "w", "2">>
AdminName == <<"a", "d", "m", "i", "n">>
DefaultAdminPassword == <<"a", "d", "m", "i", "n", "1", "2", "3">>
NewAdminPassword == <<"n", "e", "w", "p", "w">>
OfficerName == <<"N">>
OfficerAddress == <<"A">>

\* The request inputs the model draws from.
Usernames == {U1, U2}
UsernameInputs == Usernames \cup {Undefined}
MobileInputs == {M1, M2, MShort, MAlpha, Undefined}
TransactionInputs == {T1, T2, TShort, TAlpha, Undefined}
SignupPasswords == {PW1}
PasswordInputs == {PW1, PW2, Undefined}
AdminUsernameInputs == {AdminName, U1, Undefined}
AdminPasswordInputs == {DefaultAdminPassword, NewAdminPassword, Undefined}

\* The handler activations that can be suspended between two store calls at
\* the same time.
Workers == {"h1", "h2"}

\* The processes started against the one store, each calling initializeAdmin().
Runs == {"p1", "p2"}

\* Largest value of the wall clock.
MaxClock == 2

\* subscriptionDate of a document that has none.
NoDate == 0

(***************************************************************************)
(* bcrypt                                                                  *)
(***************************************************************************)
\* bcrypt.hash(p, 10): a value that is no plaintext.
Hash(p) == <<"$2a$10$">> \o p

\* bcrypt.compare(p, h)
Compare(p, h) == h = Hash(p)

VARIABLES officers, admins, now, inflight, initPc, out, transfers, results

vars == <<officers, admins, now, inflight, initPc, out, transfers, results>>

(***************************************************************************)
(* Responses                                                               *)
(***************************************************************************)
NoOut == [route |-> "none", status |-> 0, body |-> [none |-> TRUE]]

Reply(route, status, body) == [route |-> route, status |-> status, body |-> body]

Error(route, status, text) == Reply(route, status, [error |-> text])

\* A slip: the password is not deleted from the response object.
MutKeepPassword(doc) == doc

\* officer.toObject() followed by delete officerData.password
StripPassword(doc) == [f \in (DOMAIN doc) \ {"password"} |-> doc[f]]

(***************************************************************************)
(* The store                                                               *)
(***************************************************************************)
\* A query value of undefined or null matches a field that is null or absent.
Matches(value, q) ==
    IF q \in {Undefined, Null} THEN value \in {Undefined, Null} ELSE value = q

\* The filter { field: q }: the positions (_id) of the matching documents.
Where(coll, field, q) == {i \in 1..Len(coll) : Matches(coll[i][field], q)}

\* Model.findOne(filter): the position (_id) of the first match, 0 if none.
FindOne(hits) ==
    IF hits = {} THEN 0 ELSE CHOOSE i \in hits : \A j \in hits : i <= j

\* A slip: username is declared without unique: true.
MutNoUsernameIndex(coll, id, doc) == FALSE

\* Unique index on Officer.username: another document has the same key.
DupUsername(coll, id, doc) ==
    \E j \in 1..Len(coll) : j # id /\ coll[j].username = doc.username

\* Unique index on Officer.mobile.
DupMobile(coll, id, doc) ==
    \E j \in 1..Len(coll) : j # id /\ coll[j].mobile = doc.mobile

\* A slip: transactionId is declared without unique: true.
MutNoTransactionIndex(coll, id, doc) == FALSE

\* Unique sparse index on Officer.transactionId: a document without the field
\* has no index entry; a document whose field is null has one, with key null.
DupTransactionId(coll, id, doc) ==
    /\ doc.transactionId # Undefined
    /\ \E j \in 1..Len(coll) : j # id /\ coll[j].transactionId = doc.transactionId

\* E11000: the write of doc at position id breaks a unique index.
DuplicateKey(coll, id, doc) ==
    \/ DupUsername(coll, id, doc)
    \/ DupMobile(coll, id, doc)
    \/ DupTransactionId(coll, id, doc)

\* Schema validation run by Officer.create (required fields, the validators).
ValidOfficer(doc) ==
    /\ \A f \in {"name", "address", "mobile", "username", "password"} : Truthy(doc[f])
    /\ Regex10(doc.mobile)
    /\ (~Truthy(doc.transactionId) \/ Regex12(doc.transactionId))

\* Officer.create({ name, address, mobile, username, password }) at time t:
\* subscribed defaults to false, createdAt to Date.now, and the document has
\* neither transactionId nor subscriptionDate.
NewOfficer(id, body, hashed, t) ==
    [_id |-> id,
     name |-> body.name,
     address |-> body.address,
     mobile |-> body.mobile,
     username |-> body.username,
     password |-> hashed,
     subscribed |-> FALSE,
     transactionId |-> Undefined,
     subscriptionDate |-> NoDate,
     createdAt |-> t]

(***************************************************************************)
(* Handlers, as functions of the store.  A handler with two store calls   *)
(* is two functions: the part up to and including its first call, and     *)
(* the part from its second call to the response.                         *)
(***************************************************************************)
Responded(reply) == [done |-> TRUE, out |-> reply, id |-> 0]

Continue(id) == [done |-> FALSE, out |-> NoOut, id |-> id]

\* POST /signup, lines 133-142: the mobile format and the pre-check read.
SignupCheck(coll, body) ==
    IF ~Regex10(body.mobile)
    THEN Responded(Error("/signup", 400, "Invalid mobile number"))
    ELSE IF FindOne(Where(coll, "username", body.username)
                        \cup Where(coll, "mobile", body.mobile)) # 0
    THEN Responded(Error("/signup", 400, "Username or mobile number already exists"))
    ELSE Continue(0)

\* POST /signup, lines 144-162: hash, Officer.create, the response; a throw
\* (bcrypt on a non-string, validation, duplicate key) is the catch's 500.
SignupCreate(coll, t, body) ==
    IF ~IsString(body.password)
    THEN [officers |-> coll, out |-> Error("/signup", 500, "Server error")]
    ELSE LET doc == NewOfficer(Len(coll) + 1, body, Hash(body.password), t)
         IN  IF ~ValidOfficer(doc) \/ DuplicateKey(coll, doc._id, doc)
             THEN [officers |-> coll, out |-> Error("/signup", 500, "Server error")]
             ELSE [officers |-> Append(coll, doc),
                   out |-> Reply("/signup", 200,
                                 [message |-> "Officer created successfully",
                                  officer |-> StripPassword(doc)])]

\* A slip: the handler does not look for a document already holding the
\* transactionId.
MutSubmitNoUsedCheck(coll, body) ==
    IF ~Truthy(body.transactionId) \/ ~Truthy(body.username)
    THEN Responded(Error("/submit-transaction", 400,
                         "Transaction ID and username are required"))
    ELSE IF ~Regex12(body.transactionId)
    THEN Responded(Error("/submit-transaction", 400,
                         "Transaction ID must be exactly 12 digits"))
    ELSE Continue(0)

\* POST /submit-transaction, lines 174-188: presence, format, and the read
\* that looks for a document already holding the transactionId.
SubmitCheck(coll, body) ==
    IF ~Truthy(body.transactionId) \/ ~Truthy(body.username)
    THEN Responded(Error("/submit-transaction", 400,
                         "Transaction ID and username are required"))
    ELSE IF ~Regex12(body.transactionId)
    THEN Responded(Error("/submit-transaction", 400,
                         "Transaction ID must be exactly 12 digits"))
    ELSE IF FindOne(Where(coll, "transactionId", body.transactionId)) # 0
    THEN Responded(Error("/submit-transaction", 400,
                         "This transaction ID has already been used"))
    ELSE Continue(0)

\* A slip: the update does not reset subscribed.
MutSubmitKeepsSubscribed(doc, body, t) ==
    [doc EXCEPT !.transactionId = body.transactionId, !.subscriptionDate = t]

\* The update document of lines 192-196 applied to doc at time t.
SubmitSet(doc, body, t) ==
    [doc EXCEPT !.transactionId = body.transactionId,
                !.subscriptionDate = t,
                !.subscribed = FALSE]

\* A slip: the update's filter is empty, so it hits the first document.
MutSubmitFirstDocument(coll, body) == IF Len(coll) > 0 THEN 1 ELSE 0

\* The filter { username } of line 191: the document the update is applied to.
SubmitTarget(coll, body) == FindOne(Where(coll, "username", body.username))

\* POST /submit-transaction, lines 190-212: findOneAndUpdate({ username }).
SubmitUpdate(coll, t, body) ==
    LET id == SubmitTarget(coll, body)
    IN  IF id = 0
        THEN [officers |-> coll,
              out |-> Error("/submit-transaction", 404, "Officer not found")]
        ELSE LET doc == SubmitSet(coll[id], body, t)
             IN  IF DuplicateKey(coll, id, doc)
                 THEN [officers |-> coll,
                       out |-> Error("/submit-transaction", 500, "Internal server error")]
                 ELSE [officers |-> [coll EXCEPT ![id] = doc],
                       out |-> Reply("/submit-transaction", 200,
                                     [message |-> "Transaction submitted successfully",
                                      transactionId |-> doc.transactionId])]

\* A slip: a transactionId that matches no document falls back to the
\* lookup by username.
MutActivateFallsBack(coll, body) ==
    LET byId == FindOne(Where(coll, "transactionId", body.transactionId))
        byName == FindOne(Where(coll, "username", body.username))
        id == IF Truthy(body.transactionId) /\ byId # 0 THEN byId
              ELSE IF Truthy(body.username) THEN byName ELSE 0
    IN  IF Truthy(body.transactionId) /\ ~Regex12(body.transactionId)
        THEN Responded(Error("/admin/activate", 400, "Invalid transaction ID format"))
        ELSE IF ~Truthy(body.transactionId) /\ ~Truthy(body.username)
        THEN Responded(Error("/admin/activate", 400, "Provide either transactionId or username"))
        ELSE IF id = 0
        THEN Responded(Error("/admin/activate", 404, "Officer not found"))
        ELSE IF coll[id].subscribed
        THEN Responded(Error("/admin/activate", 400, "Officer is already subscribed"))
        ELSE Continue(id)

\* POST /admin/activate, lines 229-252: the lookup by transactionId or by
\* username, and the checks on the document read.
ActivateFind(coll, body) ==
    LET id == IF Truthy(body.transactionId)
              THEN FindOne(Where(coll, "transactionId", body.transactionId))
              ELSE FindOne(Where(coll, "username", body.username))
    IN  IF Truthy(body.transactionId) /\ ~Regex12(body.transactionId)
        THEN Responded(Error("/admin/activate", 400, "Invalid transaction ID format"))
        ELSE IF ~Truthy(body.transactionId) /\ ~Truthy(body.username)
        THEN Responded(Error("/admin/activate", 400, "Provide either transactionId or username"))
        ELSE IF id = 0
        THEN Responded(Error("/admin/activate", 404, "Officer not found"))
        ELSE IF coll[id].subscribed
        THEN Responded(Error("/admin/activate", 400, "Officer is already subscribed"))
        ELSE Continue(id)

\* The update document of lines 256-260 applied to doc at time t.
ActivateSet(doc, t) ==
    [doc EXCEPT !.subscribed = TRUE, !.transactionId = Null, !.subscriptionDate = t]

\* A slip: the update is filtered on subscribed: false as well, so the
\* check and the write are one atomic store call.
MutActivateUpdateGuarded(coll, t, id) ==
    IF coll[id].subscribed
    THEN [officers |-> coll,
          out |-> Error("/admin/activate", 400, "Officer is already subscribed")]
    ELSE [officers |-> [coll EXCEPT ![id] = ActivateSet(coll[id], t)],
          out |-> Reply("/admin/activate", 200,
                        [message |-> "Subscription activated successfully",
                         officer |-> StripPassword(ActivateSet(coll[id], t))])]

\* POST /admin/activate, lines 254-274: findOneAndUpdate({ _id }).
ActivateUpdate(coll, t, id) ==
    LET doc == ActivateSet(coll[id], t)
    IN  IF DuplicateKey(coll, id, doc)
        THEN [officers |-> coll, out |-> Error("/admin/activate", 500, "Server error")]
        ELSE [officers |-> [coll EXCEPT ![id] = doc],
              out |-> Reply("/admin/activate", 200,
                            [message |-> "Subscription activated successfully",
                             officer |-> StripPassword(doc)])]

\* POST /admin/activate run with no other request in between.
ActivateRun(coll, t, body) ==
    LET f == ActivateFind(coll, body)
    IN  IF f.done THEN [officers |-> coll, out |-> f.out] ELSE ActivateUpdate(coll, t, f.id)

\* POST /submit-transaction run with no other request in between.
SubmitRun(coll, t, body) ==
    LET f == SubmitCheck(coll, body)
    IN  IF f.done THEN [officers |-> coll, out |-> f.out] ELSE SubmitUpdate(coll, t, body)

\* A slip: an unknown username is answered 404.
MutLoginTellsUnknown(coll, body) ==
    LET id == FindOne(Where(coll, "username", body.username))
    IN  IF id = 0
        THEN Error("/login", 404, "Officer not found")
        ELSE IF ~IsString(body.password)
        THEN Error("/login", 500, "Server error")
        ELSE IF ~Compare(body.password, coll[id].password)
        THEN Error("/login", 401, "Invalid credentials")
        ELSE Reply("/login", 200,
                   [message |-> "Login successful",
                    officer |-> StripPassword(coll[id]),
                    subscribed |-> coll[id].subscribed])

\* POST /login, lines 103-128.
Login(coll, body) ==
    LET id == FindOne(Where(coll, "username", body.username))
    IN  IF id = 0
        THEN Error("/login", 401, "Invalid credentials")
        ELSE IF ~IsString(body.password)
        THEN Error("/login", 500, "Server error")
        ELSE IF ~Compare(body.password, coll[id].password)
        THEN Error("/login", 401, "Invalid credentials")
        ELSE Reply("/login", 200,
                   [message |-> "Login successful",
                    officer |-> StripPassword(coll[id]),
                    subscribed |-> coll[id].subscribed])

\* POST /admin/login, lines 82-100.
AdminLogin(coll, body) ==
    LET id == FindOne(Where(coll, "username", body.username))
    IN  IF id = 0
        THEN Error("/admin/login", 401, "Invalid credentials")
        ELSE IF ~IsString(body.password)
        THEN Error("/admin/login", 500, "Server error")
        ELSE IF ~Compare(body.password, coll[id].password)
        THEN Error("/admin/login", 401, "Invalid credentials")
        ELSE Reply("/admin/login", 200, [message |-> "Admin login successful"])

\* The projection { password: 0 } of GET /admin/officers.
ExcludePassword(doc) == [f \in (DOMAIN doc) \ {"password"} |-> doc[f]]

\* .sort({ createdAt: -1 }): the orders of the collection with createdAt
\* descending; documents with equal createdAt come in either order.
SortedByCreatedAtDesc(coll) ==
    {s \in [1..Len(coll) -> 1..Len(coll)] :
        /\ \A i, j \in 1..Len(coll) : i # j => s[i] # s[j]
        /\ \A i, j \in 1..Len(coll) :
              i < j => coll[s[i]].createdAt >= coll[s[j]].createdAt}

\* GET /admin/officers under one of those orders.
AdminOfficers(coll, s) ==
    Reply("/admin/officers", 200,
          [officers |-> [i \in 1..Len(coll) |-> ExcludePassword(coll[s[i]])]])

\* POST /admin/reset-password: findOneAndUpdate({ username: 'admin' }) changes
\* nothing when no such document exists, and the handler answers 200 anyway.
ResetPassword(coll, body) ==
    LET id == FindOne(Where(coll, "username", AdminName))
    IN  IF ~IsString(body.password)
        THEN [admins |-> coll, out |-> Error("/admin/reset-password", 500, "Server error")]
        ELSE [admins |-> IF id = 0 THEN coll
                         ELSE [coll EXCEPT ![id].password = Hash(body.password)],
              out |-> Reply("/admin/reset-password", 200,
                            [message |-> "Admin password updated successfully"])]

\* A handler suspended at its second store call: where it is, and the locals
\* it resumes with.
Suspended(at, body, id) == [at |-> at, body |-> body, _id |-> id]

TypeOK ==
    /\ now \in 1..MaxClock
    /\ IsABag(inflight)
    /\ BagCardinality(inflight) <= Cardinality(Workers)
    /\ \A c \in BagToSet(inflight) :
          c.at \in {"signup_create", "submit_update", "activate_update"}
    /\ initPc \in [Runs -> {"exists", "create", "done"}]
    /\ \A i \in 1..Len(officers) : officers[i]._id = i
    /\ Len(admins) <= 1

Init ==
    /\ officers = <<>>
    /\ admins = <<>>
    /\ now = 1
    /\ inflight = EmptyBag
    /\ initPc = [e \in Runs |-> "exists"]
    /\ out = NoOut
    /\ transfers = <<>>
    /\ results = <<>>

\* What POST /admin/activate looked the officer up by.
LookupKey(body) ==
    [by |-> IF Truthy(body.transactionId) THEN "transactionId" ELSE "username"]

\* Another handler can be suspended.
CanSuspend == BagCardinality(inflight) < Cardinality(Workers)

Suspend(c) == inflight (+) SetToBag({c})

Resume(c) == inflight (-) SetToBag({c})

(***************************************************************************)
(* Steps                                                                   *)
(***************************************************************************)
\* Time passes.
Tick ==
    /\ now < MaxClock
    /\ now' = now + 1
    /\ out' = NoOut
    /\ UNCHANGED <<officers, admins, inflight, initPc, transfers, results>>

\* POST /signup arrives and runs to its pre-check read.
SignupStart(body) ==
    /\ CanSuspend
    /\ LET r == SignupCheck(officers, body)
       IN  IF r.done
           THEN /\ out' = r.out
                /\ UNCHANGED inflight
           ELSE /\ inflight' = Suspend(Suspended("signup_create", body, 0))
                /\ out' = NoOut
    /\ UNCHANGED <<officers, admins, now, initPc, transfers, results>>

\* POST /signup resumes: hash, create, respond.
SignupFinish(c) ==
    /\ c.at = "signup_create"
    /\ LET r == SignupCreate(officers, now, c.body)
       IN  /\ officers' = r.officers
           /\ out' = r.out
    /\ inflight' = Resume(c)
    /\ UNCHANGED <<admins, now, initPc, transfers, results>>

\* POST /submit-transaction arrives and runs to its pre-check read.
SubmitStart(body) ==
    /\ CanSuspend
    /\ LET r == SubmitCheck(officers, body)
       IN  IF r.done
           THEN /\ out' = r.out
                /\ UNCHANGED inflight
           ELSE /\ inflight' = Suspend(Suspended("submit_update", body, 0))
                /\ out' = NoOut
    /\ UNCHANGED <<officers, admins, now, initPc, transfers, results>>

\* POST /submit-transaction resumes: update, respond.
SubmitFinish(c) ==
    /\ c.at = "submit_update"
    /\ LET r == SubmitUpdate(officers, now, c.body)
       IN  /\ officers' = r.officers
           /\ out' = r.out
    /\ inflight' = Resume(c)
    /\ UNCHANGED <<admins, now, initPc, transfers, results>>

\* POST /admin/activate arrives and runs to its lookup.
ActivateStart(body) ==
    /\ CanSuspend
    /\ LET r == ActivateFind(officers, body)
       IN  IF r.done
           THEN /\ out' = r.out
                /\ UNCHANGED inflight
           ELSE /\ inflight' = Suspend(Suspended("activate_update", LookupKey(body), r.id))
                /\ out' = NoOut
    /\ UNCHANGED <<officers, admins, now, initPc, transfers, results>>

\* POST /admin/activate resumes: update by _id, respond.
ActivateFinish(c) ==
    /\ c.at = "activate_update"
    /\ LET r == ActivateUpdate(officers, now, c._id)
       IN  /\ officers' = r.officers
           /\ out' = r.out
    /\ inflight' = Resume(c)
    /\ UNCHANGED <<admins, now, initPc, transfers, results>>

\* POST /login: one read.
LoginRequest(body) ==
    /\ out' = Login(officers, body)
    /\ UNCHANGED <<officers, admins, now, inflight, initPc, transfers, results>>

\* POST /admin/login: one read.
AdminLoginRequest(body) ==
    /\ out' = AdminLogin(admins, body)
    /\ UNCHANGED <<officers, admins, now, inflight, initPc, transfers, results>>

\* GET /admin/officers: one read.
AdminOfficersRequest ==
    /\ \E s \in SortedByCreatedAtDesc(officers) : out' = AdminOfficers(officers, s)
    /\ UNCHANGED <<officers, admins, now, inflight, initPc, transfers, results>>

\* POST /admin/reset-password: one update.
ResetPasswordRequest(body) ==
    /\ LET r == ResetPassword(admins, body)
       IN  /\ admins' = r.admins
           /\ out' = r.out
    /\ UNCHANGED <<officers, now, inflight, initPc, transfers, results>>

\* A slip: Admin.username is declared without unique: true.
MutNoAdminIndex(coll, doc) == FALSE

\* The unique index on Admin.username.
DupAdminUsername(coll, doc) ==
    \E j \in 1..Len(coll) : coll[j].username = doc.username

\* initializeAdmin, line 71: Admin.exists({ username: 'admin' }).
InitializeAdminExists(e) ==
    /\ initPc[e] = "exists"
    /\ initPc' = [initPc EXCEPT ![e] =
                     IF FindOne(Where(admins, "username", AdminName)) # 0
                     THEN "done" ELSE "create"]
    /\ out' = NoOut
    /\ UNCHANGED <<officers, admins, now, inflight, transfers, results>>

\* initializeAdmin, lines 73-74: Admin.create under the unique index on
\* username; a duplicate key rejects the promise and creates nothing.
InitializeAdminCreate(e) ==
    /\ initPc[e] = "create"
    /\ LET doc == [username |-> AdminName, password |-> Hash(DefaultAdminPassword)]
       IN  admins' = IF DupAdminUsername(admins, doc) THEN admins
                     ELSE Append(admins, doc)
    /\ initPc' = [initPc EXCEPT ![e] = "done"]
    /\ out' = NoOut
    /\ UNCHANGED <<officers, now, inflight, transfers, results>>

\* Line 295: a process starts again and calls initializeAdmin() once more.
InitializeAdminRestart(e) ==
    /\ initPc[e] = "done"
    /\ initPc' = [initPc EXCEPT ![e] = "exists"]
    /\ out' = NoOut
    /\ UNCHANGED <<officers, admins, now, inflight, transfers, results>>

SignupBodies ==
    [name : {OfficerName}, address : {OfficerAddress}, mobile : MobileInputs,
     username : Usernames, password : SignupPasswords]

\* Signups in which each username comes with its own mobile number.
OwnMobile(body) ==
    body.mobile \in {M1, M2} => (body.username = U1 <=> body.mobile = M1)

SubmitBodies ==
    [transactionId : TransactionInputs, username : Usernames]
        \cup [transactionId : {T1}, username : {Undefined}]

\* By transactionId alone, by username alone, with both, with neither.
ActivateBodies ==
    [transactionId : TransactionInputs, username : {Undefined}]
        \cup [transactionId : {Undefined, T1}, username : Usernames]

LoginBodies == [username : UsernameInputs, password : PasswordInputs]

AdminLoginBodies == [username : AdminUsernameInputs, password : AdminPasswordInputs]

ResetBodies == [password : {NewAdminPassword, Undefined}]

\* The officer directory and the subscription handshake.
Next ==
    \/ Tick
    \/ \E body \in {b \in SignupBodies : OwnMobile(b)} : SignupStart(body)
    \/ \E c \in BagToSet(inflight) : SignupFinish(c)
    \/ \E body \in SubmitBodies : SubmitStart(body)
    \/ \E c \in BagToSet(inflight) : SubmitFinish(c)
    \/ \E body \in ActivateBodies : ActivateStart(body)
    \/ \E c \in BagToSet(inflight) : ActivateFinish(c)
    \/ \E body \in LoginBodies : LoginRequest(body)
    \/ AdminOfficersRequest

Spec == Init /\ [][Next]_vars

\* The credential store: the admin record, and the two logins.
AuthNext ==
    \/ \E e \in Runs : InitializeAdminExists(e)
    \/ \E e \in Runs : InitializeAdminCreate(e)
    \/ \E e \in Runs : InitializeAdminRestart(e)
    \/ \E body \in AdminLoginBodies : AdminLoginRequest(body)
    \/ \E body \in ResetBodies : ResetPasswordRequest(body)
    \/ \E body \in SignupBodies : SignupStart(body)
    \/ \E c \in BagToSet(inflight) : SignupFinish(c)
    \/ \E body \in LoginBodies : LoginRequest(body)

AuthSpec == Init /\ [][AuthNext]_vars

(***************************************************************************)
(* src/server.js, first revision (lines 1-280)                             *)
(***************************************************************************)
\* The request is never answered.
NoReply(route) == Reply(route, 0, [none |-> TRUE])

\* A rejection inside an async handler that has no try/catch: Express 4
\* leaves the request unanswered, Express 5 passes the error to its default
\* handler, which answers 500.  The store is as the failed call left it.
Unhandled(route) == {NoReply(route), Error(route, 500, "Internal Server Error")}

\* POST /signup, lines 135-141: hash, Officer.create({ ...req.body, password }).
\* The schema of lines 39-49 has unique indexes and no validator.
Rev1Signup(coll, t, body) ==
    IF ~IsString(body.password)
    THEN {[officers |-> coll, out |-> o] : o \in Unhandled("/signup")}
    ELSE LET doc == NewOfficer(Len(coll) + 1, body, Hash(body.password), t)
         IN  IF DuplicateKey(coll, doc._id, doc)
             THEN {[officers |-> coll, out |-> o] : o \in Unhandled("/signup")}
             ELSE {[officers |-> Append(coll, doc),
                    out |-> Reply("/signup", 200,
                                  [message |-> "Officer created successfully",
                                   officer |-> StripPassword(doc)])]}

\* POST /submit-transaction, lines 144-152: one findOneAndUpdate by username
\* that stores req.body.transactionId as it came and sets subscribed: false.
Rev1SubmitTransaction(coll, body) ==
    LET id == FindOne(Where(coll, "username", body.username))
    IN  IF id = 0
        THEN {[officers |-> coll,
               out |-> Error("/submit-transaction", 404, "Officer not found")]}
        ELSE LET doc == [coll[id] EXCEPT !.transactionId = body.transactionId,
                                         !.subscribed = FALSE]
             IN  IF DuplicateKey(coll, id, doc)
                 THEN {[officers |-> coll, out |-> o] :
                          o \in Unhandled("/submit-transaction")}
                 ELSE {[officers |-> [coll EXCEPT ![id] = doc],
                        out |-> Reply("/submit-transaction", 200,
                                      [message |-> "Transaction submitted successfully"])]}

\* POST /admin/activate, lines 155-162: findOne by transactionId, then save
\* with subscribed and subscriptionDate set; the transactionId is kept.
Rev1Activate(coll, t, body) ==
    LET id == FindOne(Where(coll, "transactionId", body.transactionId))
    IN  IF id = 0
        THEN [officers |-> coll, out |-> Error("/admin/activate", 404, "Not found")]
        ELSE [officers |-> [coll EXCEPT ![id].subscribed = TRUE,
                                        ![id].subscriptionDate = t],
              out |-> Reply("/admin/activate", 200,
                            [message |-> "Subscription activated successfully"])]

\* POST /officer/status, lines 165-169.
Rev1Status(coll, body) ==
    LET id == FindOne(Where(coll, "username", body.username))
    IN  IF id = 0
        THEN Error("/officer/status", 404, "Officer not found")
        ELSE Reply("/officer/status", 200, [activated |-> coll[id].subscribed])

Rev1SignupRequest(body) ==
    /\ \E r \in Rev1Signup(officers, now, body) :
          /\ officers' = r.officers
          /\ out' = r.out
    /\ UNCHANGED <<admins, now, inflight, initPc, transfers, results>>

Rev1SubmitTransactionRequest(body) ==
    /\ \E r \in Rev1SubmitTransaction(officers, body) :
          /\ officers' = r.officers
          /\ out' = r.out
    /\ UNCHANGED <<admins, now, inflight, initPc, transfers, results>>

Rev1ActivateRequest(body) ==
    /\ LET r == Rev1Activate(officers, now, body)
       IN  /\ officers' = r.officers
           /\ out' = r.out
    /\ UNCHANGED <<admins, now, inflight, initPc, transfers, results>>

Rev1StatusRequest(body) ==
    /\ out' = Rev1Status(officers, body)
    /\ UNCHANGED <<officers, admins, now, inflight, initPc, transfers, results>>

\* Each username signs up with its own mobile number.
Rev1SignupBodies ==
    {b \in SignupBodies : /\ b.mobile \in {M1, M2}
                          /\ b.password = PW1
                          /\ OwnMobile(b)}

\* A transactionId of 12 digits, one too short, one with a letter.
Rev1SubmitBodies == [transactionId : {T1, TShort, TAlpha}, username : Usernames]

Rev1ActivateBodies == [transactionId : {T1, TShort, T2}]

Rev1StatusBodies == [username : Usernames]

\* The officer directory of the first revision.
Rev1Next ==
    \/ Tick
    \/ \E body \in Rev1SignupBodies : Rev1SignupRequest(body)
    \/ \E body \in Rev1SubmitBodies : Rev1SubmitTransactionRequest(body)
    \/ \E body \in Rev1ActivateBodies : Rev1ActivateRequest(body)
    \/ \E body \in Rev1StatusBodies : Rev1StatusRequest(body)

Rev1Spec == Init /\ [][Rev1Next]_vars

(***************************************************************************)
(* src/server.js, first revision: transfer applications                    *)
(***************************************************************************)
\* Most applications the collection is let grow to.
MaxTransfers == 2

Whitespace == {" ", "\t"}

LowerCase == <<"a", "b", "c", "d", "e", "f", "g", "h", "i", "j", "k", "l", "m",
               "n", "o", "p", "q", "r", "s", "t", "u", "v", "w", "x", "y", "z">>

UpperCase == <<"A", "B", "C", "D", "E", "F", "G", "H", "I", "J", "K", "L", "M",
               "N", "O", "P", "Q", "R", "S", "T", "U", "V", "W", "X", "Y", "Z">>

\* A slip: the designation is not upper-cased.
MutKeepCase(s) == s

\* String.prototype.toUpperCase
ToUpperCase(s) ==
    [i \in 1..Len(s) |->
        IF \E k \in 1..Len(LowerCase) : LowerCase[k] = s[i]
        THEN UpperCase[CHOOSE k \in 1..Len(LowerCase) : LowerCase[k] = s[i]]
        ELSE s[i]]

\* String.prototype.trim
Trim(s) ==
    LET keep == {i \in 1..Len(s) : s[i] \notin Whitespace}
    IN  IF keep = {} THEN <<>>
        ELSE SubSeq(s, CHOOSE i \in keep : \A j \in keep : i <= j,
                       CHOOSE i \in keep : \A j \in keep : i >= j)

SRI == <<"S", "R", "I">>
JRI == <<"J", "R", "I">>
TYPIST == <<"T", "Y", "P", "I", "S", "T">>
STENO_TYPIST == <<"S", "T", "E", "N", "O", " ", "T", "Y", "P", "I", "S", "T">>

\* Lines 105-110, and the enum of the schema's designation (line 78).
ALLOWED_DESIGNATIONS == {SRI, JRI, TYPIST, STENO_TYPIST}

OneWay == <<"O", "n", "e", " ", "W", "a", "y">>
Mutual == <<"M", "u", "t", "u", "a", "l">>

\* The enum of the schema's transferType (line 69).
TransferTypes == {OneWay, Mutual}

\* Lines 201-209, in the order the loop tests them.
requiredFields ==
    <<"username", "applicantName", "workingDistrict", "designation",
      "dateOfJoining", "option1", "contactNumber">>

\* The document TransferApplication.create is given: { ...req.body, designation },
\* with createdAt defaulting to Date.now.
NewTransfer(id, body, designation, t) ==
    [_id |-> id,
     username |-> body.username,
     transferType |-> body.transferType,
     applicantName |-> body.applicantName,
     workingDistrict |-> body.workingDistrict,
     designation |-> designation,
     dateOfJoining |-> body.dateOfJoining,
     option1 |-> body.option1,
     option2 |-> body.option2,
     option3 |-> body.option3,
     contactNumber |-> body.contactNumber,
     createdAt |-> t]

\* Validation of the TransferApplication schema, lines 62-91.
ValidTransfer(doc) ==
    /\ \A f \in {"username", "transferType", "applicantName", "workingDistrict",
                 "designation", "dateOfJoining", "option1", "contactNumber"} :
           Truthy(doc[f])
    /\ doc.transferType \in TransferTypes
    /\ doc.designation \in ALLOWED_DESIGNATIONS

\* POST /transfer/apply, lines 194-243.
TransferApply(offs, coll, t, body) ==
    LET missing == {k \in 1..Len(requiredFields) : ~Truthy(body[requiredFields[k]])}
        first == CHOOSE k \in missing : \A j \in missing : k <= j
        designation == ToUpperCase(Trim(body.designation))
        doc == NewTransfer(Len(coll) + 1, body, designation, t)
    IN  IF FindOne(Where(offs, "username", body.username)) = 0
        THEN [transfers |-> coll,
              out |-> Error("/transfer/apply", 404, "Officer not found")]
        ELSE IF missing # {}
        THEN [transfers |-> coll,
              out |-> Error("/transfer/apply", 400,
                            requiredFields[first] \o " is required")]
        ELSE IF designation \notin ALLOWED_DESIGNATIONS
        THEN [transfers |-> coll,
              out |-> Error("/transfer/apply", 400, "Invalid designation")]
        ELSE IF ~ValidTransfer(doc)
        THEN [transfers |-> coll,
              out |-> Error("/transfer/apply", 500, "Server error")]
        ELSE [transfers |-> Append(coll, doc),
              out |-> Reply("/transfer/apply", 200,
                            [message |-> "Transfer application submitted successfully",
                             id |-> doc._id])]

\* GET /transfer/all, lines 247-258, under one of the orders of the sort.
TransferAll(coll, s) ==
    Reply("/transfer/all", 200, [list |-> [i \in 1..Len(coll) |-> coll[s[i]]]])

\* Lines 259-274: the route of each designation.
DesignationRoutes ==
    [route \in {"/transfer/sri", "/transfer/jri", "/transfer/typist",
                "/transfer/stenotypist"} |->
        CASE route = "/transfer/sri" -> SRI
          [] route = "/transfer/jri" -> JRI
          [] route = "/transfer/typist" -> TYPIST
          [] route = "/transfer/stenotypist" -> STENO_TYPIST]

\* The filter { designation: d }.
FindByDesignation(coll, d) == {i \in 1..Len(coll) : coll[i].designation = d}

\* find() without sort: the store returns the matches in an order it does not
\* promise (in practice the order of insertion); every order is an outcome.
AnyOrder(hits) ==
    {s \in [1..Cardinality(hits) -> hits] :
        \A i, j \in 1..Cardinality(hits) : i # j => s[i] # s[j]}

\* GET /transfer/sri|jri|typist|stenotypist, lines 259-274.
TransferByDesignation(coll, route, s) ==
    Reply(route, 200, [list |-> [i \in 1..Len(s) |-> coll[s[i]]]])

TransferApplyRequest(body) ==
    /\ Len(transfers) < MaxTransfers
    /\ LET r == TransferApply(officers, transfers, now, body)
       IN  /\ transfers' = r.transfers
           /\ out' = r.out
    /\ UNCHANGED <<officers, admins, now, inflight, initPc, results>>

TransferAllRequest ==
    /\ \E s \in SortedByCreatedAtDesc(transfers) : out' = TransferAll(transfers, s)
    /\ UNCHANGED <<officers, admins, now, inflight, initPc, transfers, results>>

TransferByDesignationRequest(route) ==
    /\ \E s \in AnyOrder(FindByDesignation(transfers, DesignationRoutes[route])) :
          out' = TransferByDesignation(transfers, route, s)
    /\ UNCHANGED <<officers, admins, now, inflight, initPc, transfers, results>>

ApplicantName == <<"R", "a", "v", "i">>
WorkingDistrict == <<"P", "u", "n", "e">>
DateOfJoining == <<"2", "0", "2", "0", "-", "0", "1", "-", "1", "5">>
Option1 == <<"G", "o", "a">>

\* Lower case, padded, mixed case, with an inner space, outside the list,
\* blank, absent.
DesignationInputs ==
    {<<"s", "r", "i">>, <<" ", "J", "R", "I", " ">>,
     <<"s", "t", "e", "n", "o", " ", "t", "y", "p", "i", "s", "t">>,
     <<"C", "l", "e", "r", "k">>, <<" ">>, Undefined}

\* A transferType of the enum, one outside it, none.
TransferTypeInputs == {OneWay, <<"S", "w", "a", "p">>, Undefined}

TransferBodies ==
    [username : Usernames,
     applicantName : {ApplicantName, Undefined},
     workingDistrict : {WorkingDistrict},
     designation : DesignationInputs,
     dateOfJoining : {DateOfJoining},
     option1 : {Option1},
     option2 : {Undefined},
     option3 : {Undefined},
     contactNumber : {M1},
     transferType : TransferTypeInputs]

\* One officer signs up; the other username stays unknown to the store.
TransferSignupBodies == {b \in Rev1SignupBodies : b.username = U1}

\* Transfer applications of the first revision.
TransferNext ==
    \/ Tick
    \/ \E body \in TransferSignupBodies : Rev1SignupRequest(body)
    \/ \E body \in TransferBodies : TransferApplyRequest(body)
    \/ TransferAllRequest
    \/ \E route \in DOMAIN DesignationRoutes : TransferByDesignationRequest(route)

TransferSpec == Init /\ [][TransferNext]_vars

(***************************************************************************)
(* src/server.js, first revision: exam results                             *)
(***************************************************************************)
\* Most results the collection is let grow to.
MaxResults == 2

\* What Mongoose casts to a Number: a number, or a string of digits.
CastsToNumber(v) == v # <<>> /\ \A i \in 1..Len(v) : v[i] \in Digits

\* The document Result.create(req.body) stores under the schema of lines
\* 52-59: no field is required, and date is the body's when it carries one
\* and Date.now otherwise.
NewResult(id, body, t) ==
    [_id |-> id,
     username |-> body.username,
     name |-> body.name,
     address |-> body.address,
     score |-> body.score,
     total |-> body.total,
     date |-> IF "date" \in DOMAIN body THEN body.date ELSE t]

\* POST /submit-result, lines 181-184: Result.create(req.body) with nothing
\* tested first; a score or total that does not cast to a Number rejects.
SubmitResult(coll, t, body) ==
    IF \E f \in {"score", "total"} : body[f] # Undefined /\ ~CastsToNumber(body[f])
    THEN {[results |-> coll, out |-> o] : o \in Unhandled("/submit-result")}
    ELSE {[results |-> Append(coll, NewResult(Len(coll) + 1, body, t)),
           out |-> Reply("/submit-result", 200,
                         [message |-> "Result submitted successfully"])]}

\* A slip: the query has no .sort and returns the insertion order.
MutUnsorted(coll) == {[i \in 1..Len(coll) |-> i]}

\* .sort({ date: -1 }): the orders with date descending.
SortedByDateDesc(coll) ==
    {s \in [1..Len(coll) -> 1..Len(coll)] :
        /\ \A i, j \in 1..Len(coll) : i # j => s[i] # s[j]
        /\ \A i, j \in 1..Len(coll) : i < j => coll[s[i]].date >= coll[s[j]].date}

\* GET /get-results, lines 187-190.
GetResults(coll, s) ==
    Reply("/get-results", 200, [list |-> [i \in 1..Len(coll) |-> coll[s[i]]]])

SubmitResultRequest(body) ==
    /\ Len(results) < MaxResults
    /\ \E r \in SubmitResult(results, now, body) :
          /\ results' = r.results
          /\ out' = r.out
    /\ UNCHANGED <<officers, admins, now, inflight, initPc, transfers>>

GetResultsRequest ==
    /\ \E s \in SortedByDateDesc(results) : out' = GetResults(results, s)
    /\ UNCHANGED <<officers, admins, now, inflight, initPc, transfers, results>>

\* A score that is a number, one that is not, none.
ScoreInputs == {<<"8">>, <<"x">>, Undefined}

TotalInputs == {<<"1", "0">>, Undefined}

\* The dates a client can put in the body.
ResultDates == 1..MaxClock

\* Bodies without a date, and bodies that carry one.
ResultBodies ==
    [username : {U1, Undefined},
     name : {OfficerName},
     address : {OfficerAddress},
     score : ScoreInputs,
     total : TotalInputs]
    \cup
    [username : {U1},
     name : {OfficerName},
     address : {OfficerAddress},
     score : {<<"8">>},
     total : TotalInputs,
     date : ResultDates]

\* Exam results of the first revision.
ResultNext ==
    \/ Tick
    \/ \E body \in ResultBodies : SubmitResultRequest(body)
    \/ GetResultsRequest

ResultSpec == Init /\ [][ResultNext]_vars

(***************************************************************************)
(* src/unnamed/part_001, first revision (lines 1-299)                      *)
(***************************************************************************)
\* POST /signup, lines 131-165, run with no other request in between.
P1Signup(coll, t, body) ==
    LET f == SignupCheck(coll, body)
    IN  IF f.done THEN [officers |-> coll, out |-> f.out] ELSE SignupCreate(coll, t, body)

\* POST /submit-transaction, lines 180-216: presence, format, then one
\* findOneAndUpdate({ username }) that sets transactionId and subscriptionDate
\* (subscriptionStatus is not in the schema and is dropped).
P1Submit(coll, t, body) ==
    LET id == FindOne(Where(coll, "username", body.username))
        doc == [coll[id] EXCEPT !.transactionId = body.transactionId,
                                !.subscriptionDate = t]
    IN  IF ~Truthy(body.transactionId) \/ ~Truthy(body.username)
        THEN [officers |-> coll,
              out |-> Error("/submit-transaction", 400,
                            "Transaction ID and username are required")]
        ELSE IF ~Regex12(body.transactionId)
        THEN [officers |-> coll,
              out |-> Error("/submit-transaction", 400,
                            "Transaction ID must be exactly 12 digits")]
        ELSE IF id = 0
        THEN [officers |-> coll,
              out |-> Error("/submit-transaction", 404, "Officer not found")]
        ELSE IF DuplicateKey(coll, id, doc)
        THEN [officers |-> coll,
              out |-> Error("/submit-transaction", 500, "Internal server error")]
        ELSE [officers |-> [coll EXCEPT ![id] = doc],
              out |-> Reply("/submit-transaction", 200,
                            [message |-> "Transaction submitted successfully",
                             transactionId |-> doc.transactionId])]

\* POST /admin/activate, lines 230-273: format, findOne({ transactionId }),
\* the subscribed test, then findOneAndUpdate({ transactionId }) that sets
\* subscribed: true and transactionId: '' under the unique sparse index.
P1Activate(coll, t, body) ==
    LET id == FindOne(Where(coll, "transactionId", body.transactionId))
        doc == [coll[id] EXCEPT !.subscribed = TRUE,
                                !.transactionId = <<>>,
                                !.subscriptionDate = t]
    IN  IF ~Regex12(body.transactionId)
        THEN [officers |-> coll,
              out |-> Reply("/admin/activate", 400,
                            [message |-> "Invalid transaction ID format"])]
        ELSE IF id = 0
        THEN [officers |-> coll,
              out |-> Reply("/admin/activate", 404,
                            [message |-> "No officer found with this transaction ID"])]
        ELSE IF coll[id].subscribed
        THEN [officers |-> coll,
              out |-> Reply("/admin/activate", 400,
                            [message |-> "Officer is already subscribed"])]
        ELSE IF DuplicateKey(coll, id, doc)
        THEN [officers |-> coll, out |-> Error("/admin/activate", 500, "Server error")]
        ELSE [officers |-> [coll EXCEPT ![id] = doc],
              out |-> Reply("/admin/activate", 200,
                            [message |-> "Subscription activated successfully",
                             officer |-> StripPassword(doc)])]

P1SignupRequest(body) ==
    /\ LET r == P1Signup(officers, now, body)
       IN  /\ officers' = r.officers
           /\ out' = r.out
    /\ UNCHANGED <<admins, now, inflight, initPc, transfers, results>>

P1SubmitRequest(body) ==
    /\ LET r == P1Submit(officers, now, body)
       IN  /\ officers' = r.officers
           /\ out' = r.out
    /\ UNCHANGED <<admins, now, inflight, initPc, transfers, results>>

P1ActivateRequest(body) ==
    /\ LET r == P1Activate(officers, now, body)
       IN  /\ officers' = r.officers
           /\ out' = r.out
    /\ UNCHANGED <<admins, now, inflight, initPc, transfers, results>>

P1SubmitBodies == [transactionId : {T1, T2, TShort}, username : Usernames]

P1ActivateBodies == [transactionId : {T1, T2, TShort}]

\* The subscription handshake of part_001's first revision.
P1Next ==
    \/ Tick
    \/ \E body \in Rev1SignupBodies : P1SignupRequest(body)
    \/ \E body \in P1SubmitBodies : P1SubmitRequest(body)
    \/ \E body \in P1ActivateBodies : P1ActivateRequest(body)

P1Spec == Init /\ [][P1Next]_vars

(***************************************************************************)
(* src/unnamed/part_001, second revision (lines 301-545): transfers        *)
(***************************************************************************)
DeputyTahsildar ==
    <<"D", "e", "p", "u", "t", "y", " ", "T", "a", "h", "s", "i", "l", "d", "a", "r">>

Tahsildar == <<"T", "a", "h", "s", "i", "l", "d", "a", "r">>

\* ALLOWED_DESIGNATIONS of line 399, the same list as the schema's enum
\* (line 387).
P2_ALLOWED_DESIGNATIONS == {SRI, JRI, TYPIST, STENO_TYPIST, DeputyTahsildar, Tahsildar}

\* Validation of the TransferApplication schema, lines 378-396.
P2ValidTransfer(doc) ==
    /\ \A f \in {"username", "transferType", "applicantName", "workingDistrict",
                 "designation", "dateOfJoining", "option1", "contactNumber"} :
           Truthy(doc[f])
    /\ doc.transferType \in TransferTypes
    /\ doc.designation \in P2_ALLOWED_DESIGNATIONS

\* POST /transfer/apply, lines 505-517: req.body.designation?.trim()
\* .toUpperCase(), the allow-list, then TransferApplication.create with no
\* try/catch around it.
P2TransferApply(coll, t, body) ==
    LET designation == IF body.designation = Undefined THEN Undefined
                       ELSE ToUpperCase(Trim(body.designation))
        doc == NewTransfer(Len(coll) + 1, body, designation, t)
    IN  IF designation \notin P2_ALLOWED_DESIGNATIONS
        THEN {[transfers |-> coll,
               out |-> Error("/transfer/apply", 400, "Invalid designation")]}
        ELSE IF ~P2ValidTransfer(doc)
        THEN {[transfers |-> coll, out |-> o] : o \in Unhandled("/transfer/apply")}
        ELSE {[transfers |-> Append(coll, doc),
               out |-> Reply("/transfer/apply", 200,
                             [message |-> "Transfer application submitted",
                              id |-> doc._id])]}

\* Lines 523-540: the route of each designation.
P2DesignationRoutes ==
    [route \in {"/transfer/sri", "/transfer/jri", "/transfer/typist",
                "/transfer/stenotypist", "/transfer/deputytahsildar",
                "/transfer/tahsildar"} |->
        CASE route = "/transfer/sri" -> SRI
          [] route = "/transfer/jri" -> JRI
          [] route = "/transfer/typist" -> TYPIST
          [] route = "/transfer/stenotypist" -> STENO_TYPIST
          [] route = "/transfer/deputytahsildar" -> DeputyTahsildar
          [] route = "/transfer/tahsildar" -> Tahsildar]

P2TransferApplyRequest(body) ==
    /\ Len(transfers) < MaxTransfers
    /\ \E r \in P2TransferApply(transfers, now, body) :
          /\ transfers' = r.transfers
          /\ out' = r.out
    /\ UNCHANGED <<officers, admins, now, inflight, initPc, results>>

\* GET /transfer/<designation>, lines 523-540: find({ designation }) without
\* sort.
P2TransferByDesignationRequest(route) ==
    /\ \E s \in AnyOrder(FindByDesignation(transfers, P2DesignationRoutes[route])) :
          out' = TransferByDesignation(transfers, route, s)
    /\ UNCHANGED <<officers, admins, now, inflight, initPc, transfers, results>>

\* Each designation spelled as in the list, one in lower case, none.
P2DesignationInputs == P2_ALLOWED_DESIGNATIONS \cup {<<"s", "r", "i">>, Undefined}

P2TransferBodies ==
    [username : {U1},
     applicantName : {ApplicantName},
     workingDistrict : {WorkingDistrict},
     designation : P2DesignationInputs,
     dateOfJoining : {DateOfJoining},
     option1 : {Option1},
     option2 : {Undefined},
     option3 : {Undefined},
     contactNumber : {M1},
     transferType : {OneWay, Undefined}]

\* Transfer applications of part_001's second revision.
P2TransferNext ==
    \/ Tick
    \/ \E body \in P2TransferBodies : P2TransferApplyRequest(body)
    \/ TransferAllRequest
    \/ \E route \in DOMAIN P2DesignationRoutes : P2TransferByDesignationRequest(route)

P2TransferSpec == Init /\ [][P2TransferNext]_vars

(***************************************************************************)
(* Properties                                                              *)
(***************************************************************************)
Ids == 1..Len(officers)

\* PENDING: not subscribed, holding a 12-digit transactionId.
Pending(d) == ~d.subscribed /\ Regex12(d.transactionId)

ByTransactionId(t) == [transactionId |-> t, username |-> Undefined]

AlreadySubscribed == Error("/admin/activate", 400, "Officer is already subscribed")

AlreadyUsed == Error("/submit-transaction", 400, "This transaction ID has already been used")

\* C1: whenever POST /admin/activate with transactionId T (and no username)
\* succeeds, the same request sent again is answered 400 "Officer is already
\* subscribed" and leaves the officers as the first call left them.
C1_SecondActivateConflicts ==
    \A t \in TransactionInputs :
        LET first == ActivateRun(officers, now, ByTransactionId(t))
            second == ActivateRun(first.officers, now, ByTransactionId(t))
        IN  first.out.status = 200 =>
                /\ second.out = AlreadySubscribed
                /\ second.officers = first.officers

\* C2: in every reachable state, POST /submit-transaction by officer B with
\* a 12-digit transactionId that a different officer A holds, run with no
\* other request in between, is answered 400 "This transaction ID has already
\* been used" and leaves every officer record as it was.
C2_UsedTransactionRejected ==
    \A body \in SubmitBodies :
        ( /\ Regex12(body.transactionId)
          /\ Truthy(body.username)
          /\ \E a \in Ids : /\ officers[a].transactionId = body.transactionId
                            /\ officers[a].username # body.username )
        => SubmitRun(officers, now, body) = [officers |-> officers, out |-> AlreadyUsed]

\* C2 witness: the conflict has just been answered while an officer holds a
\* transactionId and a second officer exists.
C2_Witness ==
    /\ out = AlreadyUsed
    /\ Len(officers) = 2
    /\ \E a \in Ids : Pending(officers[a])

\* C3: whenever POST /admin/activate that looked up a PENDING officer by its
\* transactionId performs its update while the officer is still PENDING, it
\* answers 200 and leaves the officer subscribed with a subscriptionDate.
C3_PendingActivationSucceeds ==
    [][\A c \in BagToSet(inflight) :
          ( /\ c.at = "activate_update"
            /\ c.body.by = "transactionId"
            /\ Pending(officers[c._id])
            /\ ActivateFinish(c) )
          => /\ out'.status = 200
             /\ officers'[c._id].subscribed
             /\ officers'[c._id].subscriptionDate # NoDate]_vars

\* The effect of a successful submission of body on the officer at i: the
\* request's transactionId, PENDING, the time t as subscriptionDate, every
\* other field and every other officer as before.
SubmitEffect(before, after, i, body, t) ==
    /\ Len(after) = Len(before)
    /\ after[i].transactionId = body.transactionId
    /\ ~after[i].subscribed
    /\ after[i].subscriptionDate = t
    /\ after[i].subscriptionDate # NoDate
    /\ \A f \in (DOMAIN before[i]) \ {"transactionId", "subscribed", "subscriptionDate"} :
           after[i][f] = before[i][f]
    /\ \A j \in 1..Len(before) : j # i => after[j] = before[j]

\* C4: in every reachable state, a POST /submit-transaction that is answered
\* 200 (run alone, or resumed at its update after other requests ran) leaves
\* the officer with that username holding the request's transactionId, not
\* subscribed, with the current time as subscriptionDate, and changes no
\* other officer; a request with a missing field or a transactionId that is
\* not 12 digits is answered 400, one with an unknown username is not
\* answered 200, and neither changes any officer record.
C4_SubmitEffect ==
    /\ \A body \in SubmitBodies :
          LET r == SubmitRun(officers, now, body)
              i == FindOne(Where(officers, "username", body.username))
          IN  /\ r.out.status = 200 =>
                     i # 0 /\ SubmitEffect(officers, r.officers, i, body, now)
              /\ ( \/ ~Truthy(body.username)
                   \/ ~Truthy(body.transactionId)
                   \/ ~Regex12(body.transactionId) )
                 => r.out.status = 400 /\ r.officers = officers
              /\ i = 0 => r.out.status \in {400, 404} /\ r.officers = officers
    /\ \A c \in BagToSet(inflight) :
          c.at = "submit_update" =>
              LET r == SubmitUpdate(officers, now, c.body)
                  i == FindOne(Where(officers, "username", c.body.username))
              IN  /\ r.out.status = 200 =>
                         i # 0 /\ SubmitEffect(officers, r.officers, i, c.body, now)
                  /\ i = 0 => r.out.status = 404 /\ r.officers = officers

\* C4 witness: a submission has just succeeded for one of two officers.
C4_Witness ==
    /\ out.route = "/submit-transaction"
    /\ out.status = 200
    /\ Len(officers) = 2
    /\ \E i \in Ids : /\ officers[i].transactionId = out.body.transactionId
                      /\ Pending(officers[i])

\* The step is the update of an activation of the officer at i that is
\* answered 200 and, if it looked the officer up by transactionId, finds the
\* officer PENDING.
ActivationOf(i) ==
    \E c \in BagToSet(inflight) :
        /\ c.at = "activate_update"
        /\ c._id = i
        /\ ActivateFinish(c)
        /\ out'.route = "/admin/activate"
        /\ out'.status = 200
        /\ c.body.by = "transactionId" => Pending(officers[i])

\* C5: an officer's subscribed flag changes from false to true only in a step
\* taken while that officer is PENDING, holding a 12-digit transactionId.
C5_NoShortcut ==
    [][\A i \in Ids :
          (~officers[i].subscribed /\ officers'[i].subscribed) => Pending(officers[i])]_vars

\* C5, amended: an officer's subscribed flag changes from false to true only
\* in the update of a POST /admin/activate for that officer that is answered
\* 200; when the request looked the officer up by transactionId, the officer
\* is PENDING at that update.
C5_OnlyActivationSubscribes ==
    [][\A i \in Ids :
          (~officers[i].subscribed /\ officers'[i].subscribed) => ActivationOf(i)]_vars

\* C5 witness: an activation has just set an officer's subscribed flag.
C5_Witness ==
    /\ out.route = "/admin/activate"
    /\ out.status = 200
    /\ \E i \in Ids : officers[i].subscribed /\ out.body.officer._id = i

\* C6: once an officer's subscribed flag is true, no step sets it to false.
C6_SubscribedTerminal ==
    [][\A i \in Ids : officers[i].subscribed => officers'[i].subscribed]_vars

\* C6, amended: an officer's subscribed flag changes from true to false only
\* in the update of a POST /submit-transaction for that officer's username
\* that is answered 200, which leaves the officer PENDING.
C6_OnlySubmitUnsubscribes ==
    [][\A i \in Ids :
          (officers[i].subscribed /\ ~officers'[i].subscribed) =>
              /\ \E c \in BagToSet(inflight) :
                    /\ c.at = "submit_update"
                    /\ c.body.username = officers[i].username
                    /\ SubmitFinish(c)
              /\ out'.route = "/submit-transaction"
              /\ out'.status = 200
              /\ Pending(officers'[i])]_vars

\* C6 witness: a subscribed officer exists while its username's submission
\* is suspended at the update.
C6_Witness ==
    \E i \in Ids :
        /\ officers[i].subscribed
        /\ \E c \in BagToSet(inflight) :
              c.at = "submit_update" /\ c.body.username = officers[i].username

\* The password fields of a response body: its own, its officer's, and those
\* of the officers it lists.
ExposesPassword(body) ==
    \/ "password" \in DOMAIN body
    \/ "officer" \in DOMAIN body /\ "password" \in DOMAIN body.officer
    \/ /\ "officers" \in DOMAIN body
       /\ \E k \in 1..Len(body.officers) : "password" \in DOMAIN body.officers[k]

\* C7: in every reachable state no stored officer password is a plaintext that
\* /signup accepts, and no response of /signup, /login, /admin/activate or
\* /admin/officers has a password field.
C7_PasswordNeverExposed ==
    /\ \A i \in Ids : \A body \in SignupBodies : officers[i].password # body.password
    /\ out.route \in {"/signup", "/login", "/admin/activate", "/admin/officers"}
          => ~ExposesPassword(out.body)

\* C7 witness: a login has just succeeded and returned the officer.
C7_Witness ==
    /\ out.route = "/login"
    /\ out.status = 200
    /\ \E i \in Ids : out.body.officer._id = i /\ officers[i].password = Hash(PW1)

InvalidCredentials(route) == Error(route, 401, "Invalid credentials")

\* A login body whose username is registered in coll and whose password is a
\* string other than the registered one.
WrongPassword(coll, body) ==
    /\ IsString(body.password)
    /\ \E k \in 1..Len(coll) : /\ coll[k].username = body.username
                               /\ ~Compare(body.password, coll[k].password)

\* A login body whose username is not registered in coll.
UnknownUsername(coll, body) ==
    \A k \in 1..Len(coll) : coll[k].username # body.username

\* C8: in every store state, /login answers a registered username with a
\* wrong password exactly as it answers an unregistered username with any
\* password, and so does /admin/login; the response a login step emits is
\* that common answer, and the step changes neither collection.  A login
\* step is enabled in every state, so looking at the login steps alone looks
\* at every store state.
C8_LoginIndistinguishable ==
    [][/\ \A b1, b2 \in LoginBodies :
             ( /\ out'.route = "/login"
               /\ WrongPassword(officers, b1) /\ UnknownUsername(officers, b2) ) =>
                 /\ Login(officers, b1) = Login(officers, b2)
                 /\ LoginRequest(b1) =>
                        out' = Login(officers, b2) /\ officers' = officers /\ admins' = admins
                 /\ LoginRequest(b2) =>
                        out' = Login(officers, b1) /\ officers' = officers /\ admins' = admins
       /\ \A b1, b2 \in AdminLoginBodies :
             ( /\ out'.route = "/admin/login"
               /\ WrongPassword(admins, b1) /\ UnknownUsername(admins, b2) ) =>
                 /\ AdminLogin(admins, b1) = AdminLogin(admins, b2)
                 /\ AdminLoginRequest(b1) =>
                        out' = AdminLogin(admins, b2) /\ officers' = officers /\ admins' = admins
                 /\ AdminLoginRequest(b2) =>
                        out' = AdminLogin(admins, b1) /\ officers' = officers /\ admins' = admins]_vars

\* C8 witness: /admin/login has just refused a request while the admin and an
\* officer are registered and a username of the inputs is not.
C8_Witness ==
    /\ out = InvalidCredentials("/admin/login")
    /\ Len(admins) = 1
    /\ Len(officers) = 1

\* C9: in every reachable state no two officer records share a username, no
\* two share a mobile number, and every stored mobile is exactly 10 digits.
C9_UniqueOfficers ==
    /\ \A i, j \in Ids :
          i # j => /\ officers[i].username # officers[j].username
                   /\ officers[i].mobile # officers[j].mobile
    /\ \A i \in Ids : Regex10(officers[i].mobile)

\* C9 witness: of two signups that both passed the pre-check, the second
\* insert has just been rejected by a unique index.
C9_Witness ==
    /\ out = Error("/signup", 500, "Server error")
    /\ Len(officers) >= 1

\* C10: in every reachable state no two distinct officers hold the same
\* non-empty transactionId, and every non-empty stored transactionId is
\* exactly 12 digits.
C10_UniqueTransactionIds ==
    /\ \A i, j \in Ids :
          (i # j /\ Truthy(officers[i].transactionId)) =>
              officers[i].transactionId # officers[j].transactionId
    /\ \A i \in Ids :
          Truthy(officers[i].transactionId) => Regex12(officers[i].transactionId)

\* C10 witness: of two submissions of one transactionId that both passed the
\* pre-check, the second update has just been rejected by the unique index,
\* and the first officer holds the transactionId.
C10_Witness ==
    /\ out = Error("/submit-transaction", 500, "Internal server error")
    /\ \E i \in Ids : Pending(officers[i])

\* The insert of a suspended POST /signup is rejected by a unique index.
SignupRejectedByIndex(c) ==
    /\ c.at = "signup_create"
    /\ IsString(c.body.password)
    /\ LET doc == NewOfficer(Len(officers) + 1, c.body, Hash(c.body.password), now)
       IN  ValidOfficer(doc) /\ DuplicateKey(officers, doc._id, doc)

\* The update of a suspended POST /submit-transaction is rejected by the
\* unique index on transactionId.
SubmitRejectedByIndex(c) ==
    /\ c.at = "submit_update"
    /\ SubmitTarget(officers, c.body) # 0
    /\ LET id == SubmitTarget(officers, c.body)
       IN  DuplicateKey(officers, id, SubmitSet(officers[id], c.body, now))

\* C11: a request that passed the pre-check and whose write is then rejected
\* by a unique index (the loser of a race) is answered with a 400-class
\* status, not a 5xx.
C11_RaceLoserGets400 ==
    \A c \in BagToSet(inflight) :
        /\ SignupRejectedByIndex(c) =>
               SignupCreate(officers, now, c.body).out.status \in 400..499
        /\ SubmitRejectedByIndex(c) =>
               SubmitUpdate(officers, now, c.body).out.status \in 400..499

\* The Admin records with username 'admin'.
AdminRecords(coll) == {i \in 1..Len(coll) : coll[i].username = AdminName}

\* C12: initializeAdmin is idempotent.  Once any execution has finished,
\* sequentially or interleaved with another, the store holds exactly one
\* Admin record named 'admin'; and a step of an execution taken while that
\* record is present creates no record and leaves the stored password alone.
C12_InitializeAdminIdempotent ==
    [][/\ (\E e \in Runs : initPc'[e] = "done") =>
              Cardinality(AdminRecords(admins')) = 1
       /\ \A e \in Runs :
              (initPc'[e] # initPc[e] /\ AdminRecords(admins) # {}) =>
                  admins' = admins]_vars

\* One execution has finished and the record exists, while another execution
\* that saw no record is about to create it.
C12_Witness ==
    /\ Cardinality(AdminRecords(admins)) = 1
    /\ \E e1, e2 \in Runs : initPc[e1] = "done" /\ initPc[e2] = "create"

\* C13: whenever POST /admin/reset-password with password P answers with its
\* success message, the admin record's password is the hash of P: the admin
\* logs in with ('admin', P) and no longer with the default password.
C13_ResetTakesEffect ==
    [][\A body \in ResetBodies :
          (ResetPasswordRequest(body) /\ out'.status = 200) =>
              /\ \E i \in AdminRecords(admins') :
                     admins'[i].password = Hash(body.password)
              /\ AdminLogin(admins', [username |-> AdminName,
                                      password |-> body.password]).status = 200
              /\ AdminLogin(admins', [username |-> AdminName,
                                      password |-> DefaultAdminPassword]).status = 401]_vars

\* A POST /admin/activate that found the officer PENDING by transactionId is
\* suspended before its update, and another activation of the same officer
\* has been written in the meantime.
ActivatedMeanwhile(c) ==
    /\ c.at = "activate_update"
    /\ c.body.by = "transactionId"
    /\ officers[c._id].subscribed
    /\ ~DuplicateKey(officers, c._id, ActivateSet(officers[c._id], now))

\* C14: activation is not atomic.  A second POST /admin/activate that read
\* subscribed = false before the first one's update still performs its own
\* update and answers 200, replacing the subscriptionDate the first wrote.
C14_ActivationRaces ==
    \A c \in BagToSet(inflight) :
        ActivatedMeanwhile(c) =>
            LET r == ActivateUpdate(officers, now, c._id)
            IN  /\ r.out.status = 200
                /\ r.officers[c._id].subscribed
                /\ r.officers[c._id].subscriptionDate = now

\* The first activation was written at an earlier time than the second one's
\* update will carry.
C14_Witness ==
    \E c \in BagToSet(inflight) :
        /\ ActivatedMeanwhile(c)
        /\ officers[c._id].subscriptionDate < now

\* C15: POST /submit-transaction by officer u with a well-formed transactionId
\* is answered 'already used' only when the transactionId is attached to an
\* officer other than u; re-submitting one's own is not a conflict.
C15_ConflictOnlyWithAnother ==
    \A body \in SubmitBodies :
        SubmitRun(officers, now, body).out = AlreadyUsed =>
            \E i \in Ids : /\ officers[i].transactionId = body.transactionId
                           /\ officers[i].username # body.username

\* C16: the first revision's POST /submit-transaction by a registered officer
\* rejects a transactionId that is not exactly 12 digits with status 400 and
\* changes no officer, and
\* every stored transactionId is exactly 12 digits.
C16_Rev1TransactionIdValidated ==
    /\ \A body \in Rev1SubmitBodies :
           ( /\ ~Regex12(body.transactionId)
             /\ Where(officers, "username", body.username) # {} ) =>
               \A r \in Rev1SubmitTransaction(officers, body) :
                   r.out.status = 400 /\ r.officers = officers
    /\ \A i \in Ids :
           Truthy(officers[i].transactionId) => Regex12(officers[i].transactionId)

\* The officer of the request exists, and every field other than the
\* designation is present and passes the schema.
OtherwiseComplete(body) ==
    /\ Where(officers, "username", body.username) # {}
    /\ \A f \in {"username", "applicantName", "workingDistrict", "dateOfJoining",
                 "option1", "contactNumber"} : Truthy(body[f])
    /\ body.transferType \in TransferTypes

\* The application is in every listing the route can return, in any order.
ListedBy(coll, route, rec) ==
    \A s \in AnyOrder(FindByDesignation(coll, DesignationRoutes[route])) :
        \E i \in 1..Len(s) : TransferByDesignation(coll, route, s).body.list[i] = rec

\* C17: POST /transfer/apply trims and upper-cases the designation.  If the
\* result is one of SRI, JRI, TYPIST, STENO TYPIST the application is stored
\* with that upper-case designation and the listing of that designation, and
\* no other, returns it ('sri' is stored and listed as 'SRI'); otherwise
\* ('Clerk') the answer is 400 and nothing is stored.
C17_DesignationNormalised ==
    \A body \in TransferBodies :
        OtherwiseComplete(body) =>
            LET r == TransferApply(officers, transfers, now, body)
                d == ToUpperCase(Trim(body.designation))
                rec == r.transfers[Len(r.transfers)]
            IN  /\ IF Truthy(body.designation) /\ d \in {SRI, JRI, TYPIST, STENO_TYPIST}
                   THEN /\ r.out.status = 200
                        /\ r.transfers = Append(transfers, rec)
                        /\ rec.designation = d
                        /\ \A route \in DOMAIN DesignationRoutes :
                               ListedBy(r.transfers, route, rec)
                                   <=> DesignationRoutes[route] = d
                   ELSE /\ r.out.status = 400
                        /\ r.transfers = transfers
                /\ body.designation = <<"s", "r", "i">> =>
                       /\ r.out.status = 200
                       /\ rec.designation = <<"S", "R", "I">>
                       /\ ListedBy(r.transfers, "/transfer/sri", rec)
                /\ body.designation = <<"C", "l", "e", "r", "k">> =>
                       /\ r.out.status = 400
                       /\ r.transfers = transfers

\* An application sent with designation 'sri' has just been stored as 'SRI'.
C17_Witness ==
    /\ out.route = "/transfer/apply"
    /\ out.status = 200
    /\ transfers # <<>>
    /\ transfers[Len(transfers)].designation = SRI
    /\ out.body.id = Len(transfers)

\* The request body of the interface table and nothing else: the seven
\* required fields, a designation of the allow-list, no transferType.
SpecBody(body) ==
    /\ \A k \in 1..Len(requiredFields) : Truthy(body[requiredFields[k]])
    /\ ToUpperCase(Trim(body.designation)) \in ALLOWED_DESIGNATIONS
    /\ body.transferType = Undefined
    /\ body.option2 = Undefined
    /\ body.option3 = Undefined

\* C18: for an existing officer, POST /transfer/apply with exactly the fields
\* of the interface table is accepted with { message, id } and appends one
\* application; and a request rejected because a required input is absent is
\* answered 400, never 500.
C18_SpecBodyAccepted ==
    \A body \in TransferBodies :
        Where(officers, "username", body.username) # {} =>
            LET r == TransferApply(officers, transfers, now, body)
            IN  /\ SpecBody(body) =>
                       /\ r.out.status = 200
                       /\ DOMAIN r.out.body = {"message", "id"}
                       /\ Len(r.transfers) = Len(transfers) + 1
                /\ ( /\ r.out.status # 200
                     /\ \E f \in DOMAIN body \ {"option2", "option3"} :
                            body[f] = Undefined ) =>
                       r.out.status = 400

\* The list holds exactly the applications at the positions hits, newest first.
ExactlyNewestFirst(list, hits) ==
    /\ Len(list) = Cardinality(hits)
    /\ {list[i] : i \in 1..Len(list)} = {transfers[i] : i \in hits}
    /\ \A i, j \in 1..Len(list) : i < j => list[i].createdAt >= list[j].createdAt

\* C20: in every store state GET /transfer/all returns every application, and
\* each of /transfer/sri, /transfer/jri, /transfer/typist, /transfer/stenotypist
\* exactly those of its designation, ordered by createdAt descending.
C20_ListingsNewestFirst ==
    /\ \A s \in SortedByCreatedAtDesc(transfers) :
           ExactlyNewestFirst(TransferAll(transfers, s).body.list, 1..Len(transfers))
    /\ \A route \in DOMAIN DesignationRoutes :
           LET hits == FindByDesignation(transfers, DesignationRoutes[route])
           IN  \A s \in AnyOrder(hits) :
                   ExactlyNewestFirst(TransferByDesignation(transfers, route, s).body.list,
                                      {i \in 1..Len(transfers) :
                                          transfers[i].designation = DesignationRoutes[route]})

\* The body carries a username, a numeric score and a numeric total.
CompleteResult(body) ==
    /\ Truthy(body.username)
    /\ body.score # Undefined /\ CastsToNumber(body.score)
    /\ body.total # Undefined /\ CastsToNumber(body.total)

\* C19: POST /submit-result with a body that lacks the username, a numeric
\* score or a numeric total is answered 400 and appends no result; only a
\* body with all three appends one.
C19_ResultValidated ==
    \A body \in ResultBodies :
        \A r \in SubmitResult(results, now, body) :
            IF CompleteResult(body)
            THEN Len(r.results) = Len(results) + 1
            ELSE r.out.status = 400 /\ r.results = results

\* C21: GET /get-results returns every stored result, with dates in
\* non-increasing order whatever the insertion order and whether the dates
\* came from the client or from the default, and changes nothing.
C21_ResultsNewestFirst ==
    [][GetResultsRequest =>
          LET list == out'.body.list
          IN  /\ out'.status = 200
              /\ Len(list) = Len(results)
              /\ \A k \in 1..Len(results) :
                     Cardinality({i \in 1..Len(list) : list[i] = results[k]}) = 1
              /\ \A i, j \in 1..Len(list) : i < j => list[i].date >= list[j].date
              /\ results' = results]_vars

\* The listing has just been returned for a store in which the result
\* inserted first is the older one and the second carries a date set by the
\* client, later than the clock.
C21_Witness ==
    /\ out.route = "/get-results"
    /\ Len(results) = MaxResults
    /\ results[1].date < results[Len(results)].date
    /\ results[Len(results)].date > now
    /\ out.body.list[1] = results[Len(results)]

\* The officer registered under username u in coll, 0 if none.
OfficerOf(coll, u) == FindOne(Where(coll, "username", u))

\* C22: a payment reference cannot be replayed.  Once transactionId t has
\* activated officer u1, no later requests let another officer u2 attach t
\* through /submit-transaction and be subscribed by /admin/activate with t.
\* The later requests tried here: any one /submit-transaction, then u2's
\* submission of t, then the activation with t.
C22_NoReplay ==
    \A t \in {T1, T2} : \A u1, u2 \in Usernames : \A mid \in SubmitBodies :
        LET first == ActivateRun(officers, now, ByTransactionId(t))
            other == SubmitRun(first.officers, now, mid)
            attach == SubmitRun(other.officers, now,
                                [transactionId |-> t, username |-> u2])
            again == ActivateRun(attach.officers, now, ByTransactionId(t))
        IN  ( /\ u1 # u2
              /\ OfficerOf(officers, u1) # 0
              /\ OfficerOf(officers, u2) # 0
              /\ officers[OfficerOf(officers, u1)].transactionId = t
              /\ first.out.status = 200 ) =>
                ~( /\ attach.out.status = 200
                   /\ again.out.status = 200
                   /\ again.officers[OfficerOf(officers, u2)].subscribed )

\* C23: in part_001's first revision, for any two officers that are both
\* PENDING with distinct 12-digit transactionIds, activating the first and
\* then the second succeeds for both and leaves both subscribed.
C23_BothActivationsSucceed ==
    \A i, j \in Ids :
        ( /\ i # j
          /\ Pending(officers[i])
          /\ Pending(officers[j])
          /\ officers[i].transactionId # officers[j].transactionId ) =>
            LET first == P1Activate(officers, now,
                                    [transactionId |-> officers[i].transactionId])
                second == P1Activate(first.officers, now,
                                     [transactionId |-> officers[j].transactionId])
            IN  /\ first.out.status = 200
                /\ second.out.status = 200
                /\ second.officers[i].subscribed
                /\ second.officers[j].subscribed

\* C24: in part_001's second revision, for every designation of the allow-list
\* (SRI, JRI, TYPIST, STENO TYPIST, Deputy Tahsildar, Tahsildar), POST
\* /transfer/apply with the designation spelled as in the list and an
\* otherwise valid body is accepted, and the stored application is returned by
\* the listing route of that designation.
C24_EveryListedDesignationAccepted ==
    \A body \in P2TransferBodies :
        ( /\ body.designation \in P2_ALLOWED_DESIGNATIONS
          /\ body.transferType \in TransferTypes ) =>
            \A r \in P2TransferApply(transfers, now, body) :
                /\ r.out.status = 200
                /\ Len(r.transfers) = Len(transfers) + 1
                /\ \E route \in DOMAIN P2DesignationRoutes :
                       /\ P2DesignationRoutes[route] = body.designation
                       /\ \A s \in AnyOrder(FindByDesignation(r.transfers, body.designation)) :
                              \E i \in 1..Len(s) :
                                  TransferByDesignation(r.transfers, route, s).body.list[i]
                                      = r.transfers[Len(r.transfers)]

=============================================================================
